---- MODULE Spec2Model ----
(***************************************************************************)
(* The PDF-to-Word upload widget (class PDFToWordConverter) in its three   *)
(* variants:                                                               *)
(*   variant 1: src/frontend/script.js lines 1-177                         *)
(*   variant 2: src/frontend/script.js lines 179-530                       *)
(*   variant 3: src/unnamed/part_000                                       *)
(* The state is the part of the DOM the class writes (the display of the   *)
(* four regions, the error text, the file input, the download button), the *)
(* fields of every PDFToWordConverter object alive on the page, and the    *)
(* fetch() calls that have been issued and not yet settled.  Every event   *)
(* callback runs to its first await as one step; the continuation after    *)
(* the awaits of one fetch is one step (nothing is written between them).  *)
(* Not modelled (they write nothing the handlers read): the progress-bar   *)
(* timers, the loading / celebrate / shake animations, the cursor          *)
(* follower, the button caption, console logging and GET /health.          *)
(***************************************************************************)
EXTENDS Integers, Sequences, FiniteSets, TLC

\* ---- bounds of the model ----
MaxInstances == 2   \* PDFToWordConverter objects alive on one page (variant 1)
MaxInFlight == 2    \* fetches issued and not yet settled (convert and download together)

\* ---- values ----
Variants == {1, 2, 3}
Undef == "undefined"                 \* the JavaScript value undefined
PDF == "application/pdf"
MaxFileSize == 20 * 1024 * 1024
Truthy(v) == v # Undef /\ v # ""     \* JavaScript truthiness of a string or undefined
OrElse(a, b) == IF Truthy(a) THEN a ELSE b   \* a || b

\* the files a user can pick or drop: File.type x File.size
FileTypes == {PDF, "text/plain"}
FileSizes == {0, 1, MaxFileSize, MaxFileSize + 1}
Files == [type : FileTypes, size : FileSizes]

\* what the backend can answer to POST /convert.  A response is
\*   rejected: fetch() rejects, there is no response;
\*   status, parsable: Response.status, and whether response.json() resolves;
\*   body: the parsed JSON object (fields that are absent read as undefined).
NoBody == [success |-> FALSE, file_id |-> Undef, filename |-> Undef,
           original_filename |-> Undef, error |-> Undef]
\* the conversions the backend can report, one file_id each; the third names no
\* original file
Conversions ==
    { [NoBody EXCEPT !.success = TRUE, !.file_id = "id1", !.filename = "out1.docx",
                     !.original_filename = "a.docx"],
      [NoBody EXCEPT !.success = TRUE, !.file_id = "id2", !.filename = "out2.docx",
                     !.original_filename = "b.docx"],
      [NoBody EXCEPT !.success = TRUE, !.file_id = "id3", !.filename = "out3.docx"] }
\* bodies that do not follow the interface: success without a file_id
Malformed == { [NoBody EXCEPT !.success = TRUE] }
Failures == { NoBody, [NoBody EXCEPT !.error = "server error"] }
Bodies == Conversions \cup Malformed \cup Failures
Statuses == {200, 500}
Ok(status) == status >= 200 /\ status <= 299          \* Response.ok
ConvertResponses ==
    { [rejected |-> TRUE, status |-> 200, parsable |-> FALSE, body |-> NoBody] }
    \cup [rejected : {FALSE}, status : Statuses, parsable : {FALSE}, body : {NoBody}]
    \cup [rejected : {FALSE}, status : Statuses, parsable : {TRUE}, body : Bodies]

\* what the backend can answer to GET /download/...: blobSize is the size of the
\* body; parsable, error are what response.json() gives for an error body
NoDownload == [rejected |-> TRUE, status |-> 200, blobSize |-> 0, parsable |-> FALSE,
               error |-> Undef]
DownloadResponses ==
    { NoDownload }
    \cup { [NoDownload EXCEPT !.rejected = FALSE, !.blobSize = n] : n \in {0, 1} }
    \cup { [NoDownload EXCEPT !.rejected = FALSE, !.status = 404] }
    \cup { [NoDownload EXCEPT !.rejected = FALSE, !.status = 404, !.parsable = TRUE,
                              !.error = e] : e \in {Undef, "File not found"} }

\* messages the browser puts in the Error it throws (any non-empty text)
FetchFailed == "Failed to fetch"
JsonFailed == "Unexpected token in JSON"
\* no link.click() happened
NoSave == [fileId |-> Undef, name |-> Undef]

VARIABLES
    variant,            \* which of the three scripts the page loads
    instances,          \* number of PDFToWordConverter objects with listeners attached
    uploadArea,         \* uploadArea.style.display = 'block'
    progressArea,       \* progressArea.style.display = 'block'
    resultArea,         \* resultArea.style.display = 'block'
    errorArea,          \* errorArea.style.display = 'block'
    errorMessage,       \* errorMessage.textContent
    fileInput,          \* fileInput.value is not ''
    disabled,           \* downloadBtn.disabled
    fileId,             \* this.fileId of each object
    convertedFilename,  \* this.convertedFilename of each object
    originalFilename,   \* this.originalFilename of each object (variant 1)
    downloadFilename,   \* this.downloadFilename of each object (variants 2, 3)
    convertReqs,        \* POST /convert fetches not yet settled, in issue order
    downloadReqs,       \* GET /download fetches not yet settled, in issue order
    saved,              \* the link.click() of the last step: what was fetched, under which name
    event               \* the event whose callback ran in the last step

vars == <<variant, instances, uploadArea, progressArea, resultArea, errorArea,
          errorMessage, fileInput, disabled, fileId, convertedFilename,
          originalFilename, downloadFilename, convertReqs, downloadReqs, saved, event>>

Objects == 1..MaxInstances

\* the mutable state as one record, so that the listeners of one event run in sequence;
\* a step starts with nothing saved
Cur == [instances |-> instances, uploadArea |-> uploadArea, progressArea |-> progressArea,
        resultArea |-> resultArea, errorArea |-> errorArea, errorMessage |-> errorMessage,
        fileInput |-> fileInput, disabled |-> disabled, fileId |-> fileId,
        convertedFilename |-> convertedFilename, originalFilename |-> originalFilename,
        downloadFilename |-> downloadFilename, convertReqs |-> convertReqs,
        downloadReqs |-> downloadReqs, saved |-> NoSave]

Becomes(s) ==
    /\ instances' = s.instances
    /\ uploadArea' = s.uploadArea
    /\ progressArea' = s.progressArea
    /\ resultArea' = s.resultArea
    /\ errorArea' = s.errorArea
    /\ errorMessage' = s.errorMessage
    /\ fileInput' = s.fileInput
    /\ disabled' = s.disabled
    /\ fileId' = s.fileId
    /\ convertedFilename' = s.convertedFilename
    /\ originalFilename' = s.originalFilename
    /\ downloadFilename' = s.downloadFilename
    /\ convertReqs' = s.convertReqs
    /\ downloadReqs' = s.downloadReqs
    /\ saved' = s.saved
    /\ variant' = variant

\* the page as loaded: one object, only the upload region shown
Loaded ==
    [instances |-> 1, uploadArea |-> TRUE, progressArea |-> FALSE, resultArea |-> FALSE,
     errorArea |-> FALSE, errorMessage |-> "", fileInput |-> FALSE, disabled |-> FALSE,
     fileId |-> [i \in Objects |-> Undef],
     convertedFilename |-> [i \in Objects |-> Undef],
     originalFilename |-> [i \in Objects |-> Undef],
     downloadFilename |-> [i \in Objects |-> Undef],
     convertReqs |-> <<>>, downloadReqs |-> <<>>, saved |-> NoSave]

\* ---- methods of PDFToWordConverter ----

showError(s, message) ==
    [s EXCEPT !.uploadArea = TRUE, !.progressArea = FALSE, !.resultArea = FALSE,
              !.errorArea = TRUE, !.errorMessage = message]

\* showProgress showing the result region where it should show the progress region
showProgressWrongRegion(s) ==
    [s EXCEPT !.uploadArea = FALSE, !.progressArea = FALSE, !.resultArea = TRUE,
              !.errorArea = FALSE]

showProgress(s) ==
    [s EXCEPT !.uploadArea = FALSE, !.progressArea = TRUE, !.resultArea = FALSE,
              !.errorArea = FALSE]

\* convertFile up to its await fetch(...): the request is issued
convertFile(s, i, file) ==
    LET s1 == showProgress(s)
    IN  [s1 EXCEPT !.convertReqs = Append(@, [owner |-> i])]

\* handleFileV1 without its size check
handleFileV1NoSizeCheck(s, i, file) ==
    IF file.type # PDF THEN showError(s, "Please select a PDF file")
    ELSE convertFile(s, i, file)

handleFileV1(s, i, file) ==
    IF file.type # PDF THEN showError(s, "Please select a PDF file")
    ELSE IF file.size > MaxFileSize THEN showError(s, "File size must be less than 20MB")
    ELSE convertFile(s, i, file)

handleFileV2(s, i, file) ==
    IF file.type # PDF THEN showError(s, "Please select a PDF file")
    ELSE IF file.size > MaxFileSize THEN showError(s, "File size must be less than 20MB")
    ELSE IF file.size = 0 THEN showError(s, "File is empty")
    ELSE convertFile(s, i, file)

\* handleFileV3 without its type check
handleFileV3NoTypeCheck(s, i, file) ==
    IF file.size > MaxFileSize THEN showError(s, "File size must be less than 20MB")
    ELSE IF file.size = 0 THEN showError(s, "File is empty")
    ELSE convertFile(s, i, file)

handleFileV3(s, i, file) ==
    IF file.type # PDF THEN showError(s, "Please select a PDF file")
    ELSE IF file.size > MaxFileSize THEN showError(s, "File size must be less than 20MB")
    ELSE IF file.size = 0 THEN showError(s, "File is empty")
    ELSE convertFile(s, i, file)

handleFile(s, i, file) ==
    CASE variant = 1 -> handleFileV1(s, i, file)
      [] variant = 2 -> handleFileV2(s, i, file)
      [] variant = 3 -> handleFileV3(s, i, file)

showResultV1(s, i, id, filename, original) ==
    [s EXCEPT !.progressArea = FALSE, !.resultArea = TRUE,
              !.fileId[i] = id, !.convertedFilename[i] = filename,
              !.originalFilename[i] = original]

\* showResultV2 storing the server's filename as the download name
showResultV2WrongName(s, i, id, filename, original) ==
    [s EXCEPT !.progressArea = FALSE, !.resultArea = TRUE,
              !.fileId[i] = id, !.convertedFilename[i] = filename,
              !.downloadFilename[i] = OrElse(filename, "converted_document.docx")]

showResultV2(s, i, id, filename, original) ==
    [s EXCEPT !.progressArea = FALSE, !.resultArea = TRUE,
              !.fileId[i] = id, !.convertedFilename[i] = filename,
              !.downloadFilename[i] = OrElse(original, "converted_document.docx")]

\* showResultV3 storing the result without switching from the progress region to the
\* result region
showResultV3KeepsProgress(s, i, id, filename, original) ==
    [s EXCEPT !.fileId[i] = id, !.convertedFilename[i] = filename,
              !.downloadFilename[i] = OrElse(original, "converted_document.docx")]

showResultV3(s, i, id, filename, original) ==
    [s EXCEPT !.progressArea = FALSE, !.resultArea = TRUE,
              !.fileId[i] = id, !.convertedFilename[i] = filename,
              !.downloadFilename[i] = OrElse(original, "converted_document.docx")]

\* convertFile after its await fetch(...): response r has arrived for object i
convertFileSettledV1(s, i, r) ==
    IF r.rejected THEN showError(s, FetchFailed)
    ELSE IF ~r.parsable THEN showError(s, JsonFailed)
    ELSE IF ~Ok(r.status) THEN showError(s, OrElse(r.body.error, "Conversion failed"))
    ELSE showResultV1(s, i, r.body.file_id, r.body.filename, r.body.original_filename)

\* convertFileSettledV2 sending the file again when the fetch was rejected
convertFileSettledV2Retries(s, i, r) ==
    IF r.rejected THEN convertFile(s, i, [type |-> PDF, size |-> 1])
    ELSE IF ~Ok(r.status)
        THEN showError(s, "Conversion failed (" \o ToString(r.status) \o ")")
    ELSE IF ~r.parsable THEN showError(s, JsonFailed)
    ELSE IF ~r.body.success THEN showError(s, OrElse(r.body.error, "Conversion failed"))
    ELSE showResultV2(s, i, r.body.file_id, r.body.filename, r.body.original_filename)

convertFileSettledV2(s, i, r) ==
    IF r.rejected THEN showError(s, OrElse(FetchFailed, "Conversion failed. Please try again."))
    ELSE IF ~Ok(r.status)
        THEN showError(s, "Conversion failed (" \o ToString(r.status) \o ")")
    ELSE IF ~r.parsable THEN showError(s, JsonFailed)
    ELSE IF ~r.body.success THEN showError(s, OrElse(r.body.error, "Conversion failed"))
    ELSE showResultV2(s, i, r.body.file_id, r.body.filename, r.body.original_filename)

\* convertFileSettledV3 forgetting the stored result when the fetch was rejected
convertFileSettledV3ClearsResult(s, i, r) ==
    IF r.rejected
        THEN [showError(s, FetchFailed) EXCEPT !.fileId[i] = Undef,
                                               !.convertedFilename[i] = Undef,
                                               !.downloadFilename[i] = Undef]
    ELSE IF ~r.parsable THEN showError(s, JsonFailed)
    ELSE IF ~Ok(r.status)
        THEN showError(s, OrElse(r.body.error, "Conversion failed (" \o ToString(r.status) \o ")"))
    ELSE showResultV3(s, i, r.body.file_id, r.body.filename, r.body.original_filename)

convertFileSettledV3(s, i, r) ==
    IF r.rejected THEN showError(s, FetchFailed)
    ELSE IF ~r.parsable THEN showError(s, JsonFailed)
    ELSE IF ~Ok(r.status)
        THEN showError(s, OrElse(r.body.error, "Conversion failed (" \o ToString(r.status) \o ")"))
    ELSE showResultV3(s, i, r.body.file_id, r.body.filename, r.body.original_filename)

convertFileSettled(s, i, r) ==
    CASE variant = 1 -> convertFileSettledV1(s, i, r)
      [] variant = 2 -> convertFileSettledV2(s, i, r)
      [] variant = 3 -> convertFileSettledV3(s, i, r)

\* downloadConvertedFile up to its await fetch(...)
downloadConvertedFileV1(s, i) ==
    IF Truthy(s.fileId[i]) /\ Truthy(s.convertedFilename[i])
    THEN [s EXCEPT !.disabled = TRUE,
                   !.downloadReqs = Append(@, [owner |-> i, fileId |-> s.fileId[i],
                                               filename |-> s.convertedFilename[i]])]
    ELSE s

downloadConvertedFileV2(s, i) ==
    IF ~Truthy(s.fileId[i]) THEN showError(s, "No file to download")
    ELSE [s EXCEPT !.disabled = TRUE,
                   !.downloadReqs = Append(@, [owner |-> i, fileId |-> s.fileId[i],
                                               filename |-> Undef])]

downloadConvertedFileV3(s, i) ==
    IF ~Truthy(s.fileId[i]) THEN showError(s, "No file to download")
    ELSE [s EXCEPT !.disabled = TRUE,
                   !.downloadReqs = Append(@, [owner |-> i, fileId |-> s.fileId[i],
                                               filename |-> Undef])]

downloadConvertedFile(s, i) ==
    CASE variant = 1 -> downloadConvertedFileV1(s, i)
      [] variant = 2 -> downloadConvertedFileV2(s, i)
      [] variant = 3 -> downloadConvertedFileV3(s, i)

\* link.download = name; link.click()
save(s, q, name) == [s EXCEPT !.saved = [fileId |-> q.fileId, name |-> name]]

\* the finally block of downloadConvertedFile
reenable(s) == [s EXCEPT !.disabled = FALSE]

\* downloadConvertedFile after its await fetch(...): response r to request q
downloadSettledV1(s, q, r) ==
    reenable(IF r.rejected \/ ~Ok(r.status)
             THEN showError(s, "Download failed. Please try again.")
             ELSE save(s, q, OrElse(s.originalFilename[q.owner], "converted.docx")))

downloadSettledV2(s, q, r) ==
    reenable(IF r.rejected THEN showError(s, "Download failed: " \o FetchFailed)
             ELSE IF ~Ok(r.status)
                 THEN showError(s, "Download failed: Download failed - file may have expired")
             ELSE IF r.blobSize = 0
                 THEN showError(s, "Download failed: Downloaded file is empty")
             ELSE save(s, q, s.downloadFilename[q.owner]))

downloadSettledV3(s, q, r) ==
    reenable(IF r.rejected THEN showError(s, "Download failed: " \o FetchFailed)
             ELSE IF ~Ok(r.status)
                 THEN IF ~r.parsable THEN showError(s, "Download failed: " \o JsonFailed)
                      ELSE showError(s, "Download failed: " \o OrElse(r.error, "Download failed"))
             ELSE save(s, q, s.downloadFilename[q.owner]))

downloadSettled(s, q, r) ==
    CASE variant = 1 -> downloadSettledV1(s, q, r)
      [] variant = 2 -> downloadSettledV2(s, q, r)
      [] variant = 3 -> downloadSettledV3(s, q, r)

resetToUpload(s) ==
    [s EXCEPT !.uploadArea = TRUE, !.progressArea = FALSE, !.resultArea = FALSE,
              !.errorArea = FALSE, !.fileInput = FALSE]

\* variant 1: new PDFToWordConverter() attaches one more set of listeners
resetConverterV1(s) == [s EXCEPT !.instances = @ + 1, !.fileInput = FALSE]

\* variants 2 and 3: location.reload() loads the page again, pending fetches are dropped
resetConverterV2(s) == Loaded

resetConverterV3(s) == Loaded

resetConverter(s) ==
    CASE variant = 1 -> resetConverterV1(s)
      [] variant = 2 -> resetConverterV2(s)
      [] variant = 3 -> resetConverterV3(s)

\* ---- event dispatch: every object alive has its listeners on the shared elements,
\* ---- and they run in registration order
RECURSIVE fileListeners(_, _, _)
fileListeners(s, i, file) ==
    IF i > s.instances THEN s
    ELSE fileListeners(handleFile(s, i, file), i + 1, file)

RECURSIVE clickListeners(_, _)
clickListeners(s, i) ==
    IF i > s.instances THEN s
    ELSE clickListeners(downloadConvertedFile(s, i), i + 1)

\* fetches issued and not yet settled
Pending(s) == Len(s.convertReqs) + Len(s.downloadReqs)

Remove(seq, k) == [j \in 1..(Len(seq) - 1) |-> IF j < k THEN seq[j] ELSE seq[j + 1]]

\* ---- what the user can reach ----
\* the drop and click listeners sit on uploadArea; a region with display none gets no events
CanSelectFile == uploadArea
\* a disabled button dispatches no click; the button sits in the result region
CanDownload == resultArea /\ ~disabled
\* the new-file button sits in the result region
CanNewFile == resultArea

Init ==
    /\ variant \in Variants
    /\ instances = Loaded.instances
    /\ uploadArea = Loaded.uploadArea
    /\ progressArea = Loaded.progressArea
    /\ resultArea = Loaded.resultArea
    /\ errorArea = Loaded.errorArea
    /\ errorMessage = Loaded.errorMessage
    /\ fileInput = Loaded.fileInput
    /\ disabled = Loaded.disabled
    /\ fileId = Loaded.fileId
    /\ convertedFilename = Loaded.convertedFilename
    /\ originalFilename = Loaded.originalFilename
    /\ downloadFilename = Loaded.downloadFilename
    /\ convertReqs = Loaded.convertReqs
    /\ downloadReqs = Loaded.downloadReqs
    /\ saved = Loaded.saved
    /\ event = "load"

\* fileInput 'change': the user picked file in the dialog (files.length > 0)
FileInputChange(file) ==
    /\ CanSelectFile
    /\ LET s == fileListeners([Cur EXCEPT !.fileInput = TRUE], 1, file)
       IN  /\ Pending(s) <= MaxInFlight
           /\ Becomes(s)
    /\ event' = "change"

\* fileInput 'change' with files.length = 0: the user emptied the selection
FileInputCleared ==
    /\ CanSelectFile
    /\ fileInput
    /\ Becomes([Cur EXCEPT !.fileInput = FALSE])
    /\ event' = "change"

\* uploadArea 'drop' with dataTransfer.files[0] = file
Drop(file) ==
    /\ CanSelectFile
    /\ LET s == fileListeners(Cur, 1, file)
       IN  /\ Pending(s) <= MaxInFlight
           /\ Becomes(s)
    /\ event' = "drop"

\* the k-th pending POST /convert settles with r
ConvertSettles(k, r) ==
    /\ k \in 1..Len(convertReqs)
    /\ Becomes(convertFileSettled([Cur EXCEPT !.convertReqs = Remove(@, k)],
                                  convertReqs[k].owner, r))
    /\ event' = "convert settled"

\* downloadBtn 'click'
DownloadClick ==
    /\ CanDownload
    /\ LET s == clickListeners(Cur, 1)
       IN  /\ Pending(s) <= MaxInFlight
           /\ Becomes(s)
    /\ event' = "click"

\* the k-th pending GET /download settles with r
DownloadSettles(k, r) ==
    /\ k \in 1..Len(downloadReqs)
    /\ Becomes(downloadSettled([Cur EXCEPT !.downloadReqs = Remove(@, k)],
                               downloadReqs[k], r))
    /\ event' = "download settled"

\* newFileBtn 'click' (variant 2 only has the button)
NewFileClick ==
    /\ variant = 2
    /\ CanNewFile
    /\ Becomes(resetToUpload(Cur))
    /\ event' = "new file"

\* a call of the global function resetConverter()
ResetConverter ==
    /\ variant = 1 => instances < MaxInstances
    /\ Becomes(resetConverter(Cur))
    /\ event' = "reset"

Next ==
    \/ \E file \in Files : FileInputChange(file)
    \/ FileInputCleared
    \/ \E file \in Files : Drop(file)
    \/ \E k \in 1..MaxInFlight, r \in ConvertResponses : ConvertSettles(k, r)
    \/ DownloadClick
    \/ \E k \in 1..MaxInFlight, r \in DownloadResponses : DownloadSettles(k, r)
    \/ NewFileClick
    \/ ResetConverter

Spec == Init /\ [][Next]_vars

\* every pending POST /convert is eventually answered or fails: the promise of fetch()
\* settles and the continuation of convertFile runs
ConvertCompletes == \E k \in 1..MaxInFlight, r \in ConvertResponses : ConvertSettles(k, r)

LiveSpec == Spec /\ WF_vars(ConvertCompletes)

\* ---- the claims ----

\* the step was the callback of a file selection or drop of file
SelectsFile(file) ==
    /\ event' \in {"change", "drop"}
    /\ FileInputChange(file) \/ Drop(file)
\* no fetch was issued by the step
NoRequestIssued == convertReqs' = convertReqs /\ downloadReqs' = downloadReqs
\* the widget shows the error region with message, and neither progress nor result
ErrorShown(message) ==
    errorArea /\ errorMessage = message /\ ~resultArea /\ ~progressArea

\* C1: in every variant, handleFile of a file whose type is not application/pdf,
\* whatever its size, shows the error 'Please select a PDF file' and issues no request.
C1_NonPdfRejected ==
    [][\A file \in Files :
          (file.type # PDF /\ SelectsFile(file))
          => (ErrorShown("Please select a PDF file")' /\ NoRequestIssued)]_vars

C1_Witness ==
    /\ variant = 1 /\ instances = 2
    /\ event \in {"change", "drop"}
    /\ ErrorShown("Please select a PDF file")
    /\ convertReqs = <<>>

\* C2: in every variant, handleFile of a PDF larger than 20 MiB shows the error
\* 'File size must be less than 20MB' and issues no request.
C2_OversizeRejected ==
    [][\A file \in Files :
          (file.type = PDF /\ file.size > 20 * 1024 * 1024 /\ SelectsFile(file))
          => (ErrorShown("File size must be less than 20MB")' /\ NoRequestIssued)]_vars

C2_Witness ==
    /\ variant = 2
    /\ event \in {"change", "drop"}
    /\ ErrorShown("File size must be less than 20MB")
    /\ convertReqs = <<>>

\* C3: in every variant, handleFile of a PDF of size 0 shows the error 'File is empty'
\* and issues no request.
C3_EmptyRejected ==
    [][\A file \in Files :
          (file.type = PDF /\ file.size = 0 /\ SelectsFile(file))
          => (ErrorShown("File is empty")' /\ NoRequestIssued)]_vars

\* the backend answered with HTTP success and a body {success: true, file_id,
\* filename, original_filename} in which every field is present
SuccessAnswer(r) ==
    /\ ~r.rejected /\ Ok(r.status) /\ r.parsable /\ r.body.success
    /\ Truthy(r.body.file_id) /\ Truthy(r.body.filename)
    /\ Truthy(r.body.original_filename)
\* the field that holds the original filename: this.originalFilename in variant 1,
\* this.downloadFilename in variants 2 and 3
StoredOriginal == IF variant = 1 THEN originalFilename ELSE downloadFilename

\* C4: when POST /convert is answered with HTTP success and a body {success: true,
\* file_id, filename, original_filename}, the result region is shown, the progress
\* region is hidden, and the object that sent the request stores exactly the returned
\* file_id, filename and original_filename.
C4_SuccessStoresResult ==
    [][event' = "convert settled" =>
          \A k \in 1..Len(convertReqs), r \in ConvertResponses :
              (SuccessAnswer(r) /\ ConvertSettles(k, r))
              => LET i == convertReqs[k].owner
                 IN  /\ resultArea' /\ ~progressArea'
                     /\ fileId'[i] = r.body.file_id
                     /\ convertedFilename'[i] = r.body.filename
                     /\ StoredOriginal'[i] = r.body.original_filename]_vars

C4_Witness ==
    /\ variant = 2
    /\ event = "convert settled"
    /\ resultArea /\ ~progressArea
    /\ fileId[1] = "id1" /\ convertedFilename[1] = "out1.docx"
    /\ downloadFilename[1] = "a.docx"

\* the backend answered with a non-2xx status, or with a 2xx status and a body
\* {success: false, error}
FailureAnswer(r) ==
    /\ ~r.rejected
    /\ \/ ~Ok(r.status)
       \/ Ok(r.status) /\ r.parsable /\ r.body \in Failures

\* C5: in every variant, when POST /convert is answered with a non-2xx status or with a
\* 2xx status and a body {success: false, error}, the error region is shown with a
\* non-empty message and the result region is not shown.
C5_FailureShowsError ==
    [][event' = "convert settled" =>
          \A k \in 1..Len(convertReqs), r \in ConvertResponses :
              (FailureAnswer(r) /\ ConvertSettles(k, r))
              => (errorArea' /\ ~resultArea' /\ errorMessage' # "")]_vars

\* no object on the page stores a fileId
NoResultStored == \A i \in 1..instances : ~Truthy(fileId[i])

\* C6: in every variant, downloadConvertedFile invoked when no fileId is stored shows the
\* error region with a message and issues no GET /download.
C6_DownloadWithoutResult ==
    [][(event' = "click" /\ NoResultStored /\ DownloadClick)
          => (errorArea' /\ errorMessage' # "" /\ downloadReqs' = downloadReqs)]_vars

\* C7: the download button is disabled exactly while a GET /download is pending: it is
\* disabled from the moment a request is issued until that request settles, and it is
\* never left disabled with no download pending.
C7_DisabledWhileDownloading ==
    /\ downloadReqs # <<>> => disabled
    /\ disabled => downloadReqs # <<>>

\* C8: at most one POST /convert is pending in every reachable state.
C8_OneConversionInFlight == Len(convertReqs) <= 1

\* C9: a POST /convert and a GET /download are never pending at the same time.
C9_ConvertAndDownloadDisjoint == ~(convertReqs # <<>> /\ downloadReqs # <<>>)

\* only the upload region is shown
UploadOnly == uploadArea /\ ~progressArea /\ ~resultArea /\ ~errorArea

\* C10: after the reset action (the new-file button, or resetConverter()), from whatever
\* state it is invoked in, only the upload region is shown and the file input is empty.
C10_ResetShowsUploadOnly ==
    [][(event' \in {"new file", "reset"} /\ (NewFileClick \/ ResetConverter))
          => (UploadOnly' /\ ~fileInput')]_vars

\* the step was a reset: the new-file button or a call of resetConverter()
Resets == event' \in {"new file", "reset"} /\ (NewFileClick \/ ResetConverter)

\* C11: after the reset action no conversion result is stored: no object on the page
\* holds a fileId or a filename of the previous conversion (so that a later download
\* cannot ask for the previous fileId).
C11_ResetClearsResult ==
    [][Resets => \A i \in 1..instances' :
                    /\ ~Truthy(fileId'[i])
                    /\ ~Truthy(convertedFilename'[i])
                    /\ ~Truthy(StoredOriginal'[i])]_vars

\* GET /download was answered with a non-success status or with a zero-byte body
BadDownload(r) == ~r.rejected /\ (~Ok(r.status) \/ r.blobSize = 0)

\* C12: in every variant, a download answered with a non-success status or a zero-byte
\* body shows the error region with a message and triggers no browser save.
C12_BadDownloadIsError ==
    [][event' = "download settled" =>
          \A k \in 1..Len(downloadReqs), r \in DownloadResponses :
              (BadDownload(r) /\ DownloadSettles(k, r))
              => (errorArea' /\ errorMessage' # "" /\ saved' = NoSave)]_vars

\* the name a save of file id must suggest: the original filename the backend returned
\* with that file_id, or the variant's default name when it returned none
DefaultName == IF variant = 1 THEN "converted.docx" ELSE "converted_document.docx"
NameOf(id) ==
    LET c == CHOOSE b \in Conversions : b.file_id = id
    IN  OrElse(c.original_filename, DefaultName)

\* C13: every browser save triggered by a download of fileId X suggests the original
\* filename returned by the conversion that produced X, or the default name when that
\* conversion returned none.
C13_SaveUsesOwnName ==
    saved # NoSave => saved.name = NameOf(saved.fileId)

\* C14: no request is retried automatically: a POST /convert or GET /download is issued
\* only in the callback of a user action (file selection, drop, download click); the
\* settling of a fetch, whatever its outcome, and a reset issue none.
C14_NoAutomaticRetry ==
    [][/\ event' = "convert settled"
            => (Len(convertReqs') = Len(convertReqs) - 1 /\ downloadReqs' = downloadReqs)
       /\ event' = "download settled"
            => (Len(downloadReqs') = Len(downloadReqs) - 1 /\ convertReqs' = convertReqs)
       /\ event' \in {"new file", "reset"}
            => (Len(convertReqs') <= Len(convertReqs)
                /\ Len(downloadReqs') <= Len(downloadReqs))]_vars

C14_Witness ==
    /\ variant = 2
    /\ event = "convert settled"
    /\ ErrorShown(FetchFailed)
    /\ convertReqs = <<>> /\ downloadReqs = <<>>

\* the widget's UI state, read from the set of visible regions
UIState ==
    CASE uploadArea /\ ~progressArea /\ ~resultArea /\ ~errorArea -> "Idle"
      [] ~uploadArea /\ progressArea /\ ~resultArea /\ ~errorArea -> "Uploading"
      [] ~uploadArea /\ ~progressArea /\ resultArea /\ ~errorArea -> "Result"
      [] uploadArea /\ ~progressArea /\ ~resultArea /\ errorArea  -> "Error"
      [] OTHER -> "Other"
ListedTransitions ==
    { <<"Idle", "Uploading">>, <<"Uploading", "Result">>, <<"Uploading", "Error">>,
      <<"Result", "Idle">>, <<"Error", "Idle">> }
ActualTransitions ==
    ListedTransitions \cup
        { <<"Idle", "Error">>, <<"Error", "Uploading">>, <<"Result", "Error">>,
          <<"Uploading", "Idle">> }

\* C15 as stated: every change of the UI state is one of Idle->Uploading,
\* Uploading->Result, Uploading->Error, Result->Idle, Error->Idle.
C15_OnlyListedTransitions ==
    [][UIState' # UIState => <<UIState, UIState'>> \in ListedTransitions]_vars

\* C15 amended: every change of the UI state between two of the states Idle, Uploading,
\* Result, Error is one of the five listed transitions or one of Idle->Error,
\* Error->Uploading, Result->Error, Uploading->Idle; in particular Result is entered
\* from Uploading only, and Uploading is never entered from Result.
C15_Transitions ==
    [][(UIState' # UIState /\ UIState # "Other" /\ UIState' # "Other")
          => <<UIState, UIState'>> \in ActualTransitions]_vars
C15_Witness ==
    /\ variant = 3
    /\ event = "download settled"
    /\ UIState = "Error"
    /\ Truthy(fileId[1])

\* the file meets the constraints of validation: a PDF of 1 byte to 20 MiB
PassesValidation(file) ==
    file.type = PDF /\ file.size > 0 /\ file.size <= MaxFileSize

\* C16: each selection or drop of a file that passes validation sends exactly one
\* POST /convert and leaves only the progress region visible, also after resetConverter.
C16_OnePostPerValidFile ==
    [][\A file \in Files :
          (PassesValidation(file) /\ SelectsFile(file))
          => (Len(convertReqs') = Len(convertReqs) + 1 /\ UIState' = "Uploading")]_vars

\* C17: while a POST /convert is pending, only the progress region is visible.
C17_UploadingWhilePending ==
    convertReqs # <<>> => UIState = "Uploading"

\* C18: when the POST /convert fetch is rejected, the error region is shown with a
\* message beside the upload region, the result and progress regions are hidden, and
\* no object's stored fileId or filenames change.
C18_NetworkFailureIsError ==
    [][event' = "convert settled" =>
          \A k \in 1..Len(convertReqs), r \in ConvertResponses :
              (r.rejected /\ ConvertSettles(k, r))
              => /\ UIState' = "Error"
                 /\ errorMessage' # ""
                 /\ fileId' = fileId
                 /\ convertedFilename' = convertedFilename
                 /\ originalFilename' = originalFilename
                 /\ downloadFilename' = downloadFilename]_vars
C18_Witness ==
    /\ variant = 3
    /\ event = "convert settled"
    /\ ErrorShown(FetchFailed)
    /\ fileId[1] = "id1"
    /\ downloadFilename[1] = "a.docx"

\* C19: handleFile gives the outcome of the reference function of (type, size): not
\* PDF -> 'Please select a PDF file'; else over 20 MiB -> 'File size must be less than
\* 20MB'; else empty -> 'File is empty'; else the file is submitted.
C19_HandleFileReference ==
    [][\A file \in Files :
          SelectsFile(file) =>
              IF file.type # PDF
                  THEN ErrorShown("Please select a PDF file")' /\ NoRequestIssued
              ELSE IF file.size > MaxFileSize
                  THEN ErrorShown("File size must be less than 20MB")' /\ NoRequestIssued
              ELSE IF file.size = 0
                  THEN ErrorShown("File is empty")' /\ NoRequestIssued
              ELSE Len(convertReqs') > Len(convertReqs) /\ progressArea']_vars

\* C20: the set of visible regions is always one of {upload}, {progress}, {result},
\* {upload, error}.
C20_RegionVisibility ==
    UIState # "Other"

\* C21: whenever the result region is visible, an object on the page stores a defined,
\* non-empty fileId.
C21_ResultHasFileId ==
    resultArea => \E i \in 1..instances : Truthy(fileId[i])

\* the conversion failed: the fetch was rejected, or the answer has a non-2xx status, an
\* unparsable body or a body {success: false}
FailedAnswer(r) == r.rejected \/ ~r.parsable \/ FailureAnswer(r)
\* the step left every object's stored result as it was
ResultUnchanged ==
    /\ fileId' = fileId
    /\ convertedFilename' = convertedFilename
    /\ originalFilename' = originalFilename
    /\ downloadFilename' = downloadFilename

\* C22: file selections and drops (validation errors included), download clicks,
\* settled downloads and failed conversions leave fileId, the converted filename and
\* the original / download filename of every object unchanged.
C22_OnlySuccessChangesResult ==
    [][/\ event' \in {"change", "drop", "click", "download settled"} => ResultUnchanged
       /\ event' = "convert settled" =>
             \A k \in 1..Len(convertReqs), r \in ConvertResponses :
                 (FailedAnswer(r) /\ ConvertSettles(k, r)) => ResultUnchanged]_vars

\* C23: at most one GET /download is pending in every reachable state.
C23_OneDownloadInFlight == Len(downloadReqs) <= 1

\* location.reload() ran: the page was loaded again and the pending requests of the
\* page before it were discarded without completing
Reloaded == event = "reset" /\ variant # 1

\* C24: when every pending POST /convert eventually completes, the uploading state is
\* shown only while a POST /convert is pending, and every uploading state is eventually
\* followed by the result state or the error state, unless a reload discards the
\* request before it completes.
C24_UploadingEnds ==
    /\ [](UIState = "Uploading" => convertReqs # <<>>)
    /\ (UIState = "Uploading") ~> (UIState \in {"Result", "Error"} \/ Reloaded)
C24_Witness ==
    /\ variant = 3
    /\ event = "convert settled"
    /\ UIState = "Result"
    /\ convertReqs = <<>>
    /\ fileId[1] = "id2"

====
